---- MODULE Spec2Model ----
(***************************************************************************)
(* Model of andi.plan (src/andi/andi.py): the dependency planner.          *)
(*                                                                         *)
(* plan() and its helpers are pure functions of the inspected signatures   *)
(* and the policies, so they are operators here; the state machine draws   *)
(* the inputs of one call, applies plan() to them and then runs the build  *)
(* loop of the docstring over the returned plan.                           *)
(*                                                                         *)
(* Python values: a class or function is a string, None is the string      *)
(* "None", a list is a sequence, a dict (insertion ordered) is a sequence  *)
(* of <<key, value>> pairs with distinct keys.                             *)
(***************************************************************************)
EXTENDS Integers, Sequences, FiniteSets, TLC

None == "None"

\* The classes and functions that exist in one run.
Nodes == {"A", "B", "C", "D", "E"}

(***************************************************************************)
(* Bounds of the input space.                                              *)
(***************************************************************************)
\* at most this many nodes are left out of is_injectable
MaxNonInjectable == 2
\* at most this many nodes are in externally_provided
MaxExternal == 1
\* at most this many entries in the overrides mapping
MaxOverrides == 2

(***************************************************************************)
(* Signatures: what inspect() returns for every node, as a list of         *)
(* (argname, types) in declaration order.                                  *)
(***************************************************************************)
Arg(argname, types) == <<argname, types>>

\* tests/test_plan.py: classes A..E
TestGraph ==
    [A |-> << Arg("e", <<"E">>) >>,
     B |-> << >>,
     C |-> << Arg("a", <<"A">>), Arg("b", <<"B">>) >>,
     D |-> << Arg("a", <<"A">>), Arg("c", <<"C">>) >>,
     E |-> << Arg("d", <<"D">>), Arg("c", <<"C">>), Arg("b", <<"B">>) >>]

\* Union / Optional annotations and a parameter without annotation
\* (test_plan_with_union, test_plan_non_annotated_args, test_plan_for_func)
UnionGraph ==
    [A |-> << Arg("a_or_b", <<"B", "C">>) >>,
     B |-> << >>,
     C |-> << Arg("d", <<"D">>) >>,
     D |-> << Arg("x", <<"E", "A">>) >>,
     E |-> << Arg("other", <<"B">>), Arg("u", <<"D", "B">>),
              Arg("non_ann", << >>) >>]

\* a node (D) that is required both outside and beneath an overridden node
SharedGraph ==
    [A |-> << >>,
     B |-> << >>,
     C |-> << Arg("x", <<"D">>) >>,
     D |-> << Arg("a", <<"A">>) >>,
     E |-> << Arg("x", <<"D">>), Arg("b", <<"B">>) >>]

Graphs == {TestGraph, UnionGraph, SharedGraph}

\* the targets plan() is called for
\* (B, a target without parameters as in test_plan_no_args, for the classes
\* of the tests only)
Roots(signatures) ==
    IF signatures = TestGraph THEN {"B", "C", "E"} ELSE {"C", "E"}

(***************************************************************************)
(* Ordered dicts.                                                          *)
(***************************************************************************)
Keys(od) == {od[i][1] : i \in DOMAIN od}

HasKey(od, key) == \E i \in DOMAIN od : od[i][1] = key

\* od[key], or default when the key is missing (dict.get, defaultdict)
Get(od, key, default) ==
    IF HasKey(od, key)
    THEN od[CHOOSE i \in DOMAIN od : od[i][1] = key][2]
    ELSE default

\* Mutant of SetItem: the pair is appended also when the key is present.
SetItem_append(od, key, value) == Append(od, <<key, value>>)

\* Mutant of SetItem: a new key goes first.
SetItem_front(od, key, value) ==
    IF HasKey(od, key)
    THEN [i \in DOMAIN od |-> IF od[i][1] = key THEN <<key, value>> ELSE od[i]]
    ELSE << <<key, value>> >> \o od

\* od[key] = value: an existing key keeps its position, a new key goes last
SetItem(od, key, value) ==
    IF HasKey(od, key)
    THEN [i \in DOMAIN od |-> IF od[i][1] = key THEN <<key, value>> ELSE od[i]]
    ELSE Append(od, <<key, value>>)

\* Mutant of Update: the pairs of items are merged last to first.
RECURSIVE Update_reversed(_, _)
Update_reversed(od, items) ==
    IF items = << >> THEN od
    ELSE Update_reversed(SetItem(od, items[Len(items)][1],
                                 items[Len(items)][2]),
                         SubSeq(items, 1, Len(items) - 1))

\* od.update(items): SetItem for every pair of items, in order
RECURSIVE Update(_, _)
Update(od, items) ==
    IF items = << >> THEN od
    ELSE Update(SetItem(od, Head(items)[1], Head(items)[2]), Tail(items))

Values(od) == {od[i][2] : i \in DOMAIN od}

(***************************************************************************)
(* The planner.                                                            *)
(***************************************************************************)
VARIABLES
    arguments,            \* the signatures inspect() reads
    class_or_func,        \* plan() arguments ...
    is_injectable,
    externally_provided,
    full_final_kwargs,
    overrides,
    recursive_overrides,
    pc,                   \* "start", "planned", "raised", "built", "KeyError"
    result,               \* what plan() returned or raised
    instances,            \* build loop: the nodes built so far
    step,                 \* build loop: index of the next step
    again                 \* what further, identical plan() calls gave

vars == <<arguments, class_or_func, is_injectable, externally_provided,
          full_final_kwargs, overrides, recursive_overrides,
          pc, result, instances, step, again>>

\* inspect(class_or_func): argname -> list of types
inspect(cls) == arguments[cls]

\* errors.py: the three error cases
CyclicDependencyErrCase(cls, dependency_stack) ==
    [case |-> "CyclicDependencyErrCase", class_or_func |-> cls,
     dependency_stack |-> dependency_stack]

\* Mutant of NonInjectableOrExternalErrCase: only the first rejected
\* candidate is listed.
NonInjectableOrExternalErrCase_first(argname, cls, types) ==
    [case |-> "NonInjectableOrExternalErrCase", argname |-> argname,
     class_or_func |-> cls, types |-> << types[1] >>]

NonInjectableOrExternalErrCase(argname, cls, types) ==
    [case |-> "NonInjectableOrExternalErrCase", argname |-> argname,
     class_or_func |-> cls, types |-> types]

LackingAnnotationErrCase(argname, cls) ==
    [case |-> "LackingAnnotationErrCase", argname |-> argname,
     class_or_func |-> cls]

_empty_overrides == [n \in Nodes |-> None]

\* Mutant of _may_override: the overrides never stop, whatever
\* recursive_overrides says.
_may_override_never_stops(cls, ov, rec) ==
    << IF ov[cls] # None THEN ov[cls] ELSE cls, ov >>

\* Mutant of _may_override: the overrides always stop beneath an overridden
\* node, whatever recursive_overrides says.
_may_override_always_stops(cls, ov, rec) ==
    << IF ov[cls] # None THEN ov[cls] ELSE cls,
       IF ov[cls] # None /\ ov[cls] # cls THEN _empty_overrides ELSE ov >>

\* Mutant of _may_override: the replacement is overridden again.
_may_override_twice(cls, ov, rec) ==
    LET once == IF ov[cls] # None THEN ov[cls] ELSE cls
        twice == IF ov[once] # None THEN ov[once] ELSE once
    IN  << twice,
           IF ~rec /\ ov[cls] # None /\ ov[cls] # cls
           THEN _empty_overrides ELSE ov >>

\* _may_override: <<class_or_func, overrides_for_children>>
_may_override(cls, ov, rec) ==
    LET override == ov[cls]
        under_override == override # None /\ override # cls
        new_cls == IF override # None THEN override ELSE cls
        stop_overriding == ~rec /\ under_override
    IN  << new_cls, IF stop_overriding THEN _empty_overrides ELSE ov >>

\* Mutant of SelectFrom: the last acceptable candidate wins.
RECURSIVE SelectFrom_last(_, _, _, _, _, _, _)
SelectFrom_last(types, i, inj, ext, ov, rec, original_ov) ==
    IF i > Len(types) THEN << None, original_ov >>
    ELSE LET mo == _may_override(types[i], ov, rec)
             later == SelectFrom_last(types, i + 1, inj, ext, ov, rec,
                                      original_ov)
         IN  IF later[1] # None THEN later
             ELSE IF mo[1] \in inj \/ mo[1] \in ext THEN mo
             ELSE << None, original_ov >>

\* Mutant of SelectFrom: the policies are asked about the candidate as
\* declared, not about its replacement.
RECURSIVE SelectFrom_tests_original(_, _, _, _, _, _, _)
SelectFrom_tests_original(types, i, inj, ext, ov, rec, original_ov) ==
    IF i > Len(types) THEN << None, original_ov >>
    ELSE IF types[i] \in inj \/ types[i] \in ext
         THEN _may_override(types[i], ov, rec)
         ELSE SelectFrom_tests_original(types, i + 1, inj, ext, ov, rec,
                                        original_ov)

\* Mutant of SelectFrom: the first candidate is selected without asking
\* the policies.
SelectFrom_unchecked(types, i, inj, ext, ov, rec, original_ov) ==
    IF i > Len(types) THEN << None, original_ov >>
    ELSE _may_override(types[i], ov, rec)

\* _select_type: <<selected class or None, overrides from now on>>
RECURSIVE SelectFrom(_, _, _, _, _, _, _)
SelectFrom(types, i, inj, ext, ov, rec, original_ov) ==
    IF i > Len(types) THEN << None, original_ov >>
    ELSE LET mo == _may_override(types[i], ov, rec)
             candidate == mo[1]
         IN  IF candidate \in inj \/ candidate \in ext
             THEN mo
             ELSE SelectFrom(types, i + 1, inj, ext, ov, rec, original_ov)

_select_type(types, inj, ext, ov, rec) ==
    SelectFrom(types, 1, inj, ext, ov, rec, ov)

\* The frame of one _plan call, recorded for the properties about frames.
Frame(cls, dependency_stack, ffk, ov, outcome) ==
    [class_or_func |-> cls, dependency_stack |-> dependency_stack,
     full_final_kwargs |-> ffk, overrides |-> ov, outcome |-> outcome,
     caller |-> << >>, merge |-> << >>]

\* The frames of a call made from the argument loop of the call with frame
\* "by": its own frame notes the node and the stack of the call that made it.
CalledBy(by, frames) ==
    [frames EXCEPT ![1].caller = << by.class_or_func, by.dependency_stack >>]

\* The frames of a call whose returned plan was merged by "plan_od.update":
\* its own frame notes plan_od before the merge, the plan, plan_od after it.
MergedInto(before, plan, after, frames) ==
    [frames EXCEPT ![1].merge = << before, plan, after >>]

\* Mutant of Returned: the plan always has full_final_kwargs True.
Returned_always_full(steps, ffk, errors, frames) ==
    [raised |-> None, plan |-> steps, full_final_kwargs |-> TRUE,
     errors |-> errors, class_or_func |-> None,
     errors_per_argument |-> << >>, frames |-> frames]

\* What a _plan call hands back: the returned (plan, errors), or the
\* exception that left it, and the frames of the call and of its children.
Returned(steps, ffk, errors, frames) ==
    [raised |-> None, plan |-> steps, full_final_kwargs |-> ffk,
     errors |-> errors, class_or_func |-> None,
     errors_per_argument |-> << >>, frames |-> frames]

Raised(exc, cls, errors_per_argument, frames) ==
    [raised |-> exc, plan |-> << >>, full_final_kwargs |-> FALSE,
     errors |-> << >>, class_or_func |-> cls,
     errors_per_argument |-> errors_per_argument, frames |-> frames]

\* Mutant of Flatten: the errors of a node are not handed to its parent.
Flatten_none(args_errs) == << >>

\* Mutant of Flatten: only the errors of the first parameter are kept.
Flatten_first_only(args_errs) ==
    IF args_errs = << >> THEN << >> ELSE Head(args_errs)[2]

\* flatten_errors: the error lists of args_errs, concatenated in order
RECURSIVE Flatten(_)
Flatten(args_errs) ==
    IF args_errs = << >> THEN << >>
    ELSE Head(args_errs)[2] \o Flatten(Tail(args_errs))

\* Mutant of ErrorManaging: full_final_kwargs is ignored.
ErrorManaging_never(ffk, args_errs, non_injectable_errs) == args_errs

\* Mutant of ErrorManaging: the test of full_final_kwargs is inverted.
ErrorManaging_inverted(ffk, args_errs, non_injectable_errs) ==
    IF ffk THEN args_errs ELSE Update(args_errs, non_injectable_errs)

\* Mutant of ErrorManaging: the errors that came back from the sub-plans
\* are dropped.
ErrorManaging_own_only(ffk, args_errs, non_injectable_errs) ==
    IF ffk THEN non_injectable_errs ELSE << >>

\* "Error managing": under full_final_kwargs the parameters without a
\* selected type are errors too
ErrorManaging(ffk, args_errs, non_injectable_errs) ==
    IF ffk THEN Update(args_errs, non_injectable_errs) ELSE args_errs

\* Mutant of Push: the node is put in front of the stack.
Push_front(dependency_stack, cls) == << cls >> \o dependency_stack

\* Mutant of Push: the node is put on the stack twice.
Push_twice(dependency_stack, cls) == Append(Append(dependency_stack, cls), cls)

\* dependency_stack + [class_or_func]
Push(dependency_stack, cls) == Append(dependency_stack, cls)

\* Mutant of CyclicErrors: a re-encountered node is no error.
CyclicErrors_none(cls, dependency_stack) == << >>

\* return Plan(), [CyclicDependencyErrCase(class_or_func, dependency_stack)]
CyclicErrors(cls, dependency_stack) ==
    << CyclicDependencyErrCase(cls, dependency_stack) >>

RECURSIVE _plan(_, _, _, _, _, _, _)
RECURSIVE ArgLoop(_, _, _, _, _, _, _, _, _)

\* Mutant of ArgLoop: the stack is one list shared with the children, on
\* which an expanded child is left behind for the later parameters.
RECURSIVE ArgLoop_shared_stack(_, _, _, _, _, _, _, _, _)
ArgLoop_shared_stack(cls, args, i, acc, inj, ext, dependency_stack, ov, rec) ==
    IF i > Len(args) \/ acc.raised # None THEN acc
    ELSE
      LET argname == args[i][1]
          types == args[i][2]
          sel == _select_type(types, inj, ext, ov, rec)
          sel_cls == sel[1]
          arg_overrides == sel[2]
          called == sel_cls # None /\ ~HasKey(acc.plan_od, sel_cls)
          sub == _plan(sel_cls, inj, ext, TRUE, dependency_stack,
                       arg_overrides, rec)
          errors == IF called THEN sub.errors ELSE << >>
          plan_od == IF called THEN Update(acc.plan_od, sub.plan)
                     ELSE acc.plan_od
          err_case == IF types = << >>
                      THEN LackingAnnotationErrCase(argname, cls)
                      ELSE NonInjectableOrExternalErrCase(argname, cls, types)
          next ==
            IF sel_cls # None
            THEN IF called /\ sub.raised # None
                 THEN [acc EXCEPT !.raised = sub.raised,
                                  !.frames = acc.frames \o CalledBy(acc.frames[1], sub.frames)]
                 ELSE [acc EXCEPT
                         !.plan_od = plan_od,
                         !.frames = IF called
                                    THEN acc.frames
                                           \o MergedInto(acc.plan_od, sub.plan,
                                                plan_od,
                                                CalledBy(acc.frames[1],
                                                         sub.frames))
                                    ELSE acc.frames,
                         !.args_errs =
                            IF errors # << >>
                            THEN SetItem(acc.args_errs, argname,
                                   Get(acc.args_errs, argname, << >>) \o errors)
                            ELSE acc.args_errs,
                         !.type_for_arg =
                            IF errors # << >> THEN acc.type_for_arg
                            ELSE SetItem(acc.type_for_arg, argname, sel_cls)]
            ELSE [acc EXCEPT
                    !.non_injectable_errs =
                       SetItem(acc.non_injectable_errs, argname,
                         Append(Get(acc.non_injectable_errs, argname, << >>),
                                err_case))]
      IN  ArgLoop_shared_stack(cls, args, i + 1, next, inj, ext,
                               IF called THEN Append(dependency_stack, sel_cls)
                               ELSE dependency_stack,
                               ov, rec)

\* Mutant of ArgLoop: when the plan of the selected candidate comes back
\* with errors, the last acceptable candidate is taken instead.
RECURSIVE ArgLoop_backtracks(_, _, _, _, _, _, _, _, _)
ArgLoop_backtracks(cls, args, i, acc, inj, ext, dependency_stack, ov, rec) ==
    IF i > Len(args) \/ acc.raised # None THEN acc
    ELSE
      LET argname == args[i][1]
          types == args[i][2]
          first == _select_type(types, inj, ext, ov, rec)
          tried == _plan(first[1], inj, ext, TRUE, dependency_stack,
                         first[2], rec)
          failed == /\ first[1] # None
                    /\ ~HasKey(acc.plan_od, first[1])
                    /\ tried.raised = None
                    /\ tried.errors # << >>
          later == SelectFrom_last(types, 1, inj, ext, ov, rec, ov)
          sel == IF failed THEN later ELSE first
          sel_cls == sel[1]
          arg_overrides == sel[2]
          called == sel_cls # None /\ ~HasKey(acc.plan_od, sel_cls)
          sub == _plan(sel_cls, inj, ext, TRUE, dependency_stack,
                       arg_overrides, rec)
          errors == IF called THEN sub.errors ELSE << >>
          plan_od == IF called THEN Update(acc.plan_od, sub.plan)
                     ELSE acc.plan_od
          err_case == IF types = << >>
                      THEN LackingAnnotationErrCase(argname, cls)
                      ELSE NonInjectableOrExternalErrCase(argname, cls, types)
          next ==
            IF sel_cls # None
            THEN IF called /\ sub.raised # None
                 THEN [acc EXCEPT !.raised = sub.raised,
                                  !.frames = acc.frames \o CalledBy(acc.frames[1], sub.frames)]
                 ELSE [acc EXCEPT
                         !.plan_od = plan_od,
                         !.frames = IF called
                                    THEN acc.frames
                                           \o MergedInto(acc.plan_od, sub.plan,
                                                plan_od,
                                                CalledBy(acc.frames[1],
                                                         sub.frames))
                                    ELSE acc.frames,
                         !.args_errs =
                            IF errors # << >>
                            THEN SetItem(acc.args_errs, argname,
                                   Get(acc.args_errs, argname, << >>) \o errors)
                            ELSE acc.args_errs,
                         !.type_for_arg =
                            IF errors # << >> THEN acc.type_for_arg
                            ELSE SetItem(acc.type_for_arg, argname, sel_cls)]
            ELSE [acc EXCEPT
                    !.non_injectable_errs =
                       SetItem(acc.non_injectable_errs, argname,
                         Append(Get(acc.non_injectable_errs, argname, << >>),
                                err_case))]
      IN  ArgLoop_backtracks(cls, args, i + 1, next, inj, ext, dependency_stack, ov, rec)

\* The body of "for argname, types in arguments.items()" from argument i on;
\* acc holds the locals plan_od, type_for_arg, args_errs,
\* non_injectable_errs, the exception that left a child (if any) and the
\* frames so far.
ArgLoop(cls, args, i, acc, inj, ext, dependency_stack, ov, rec) ==
    IF i > Len(args) \/ acc.raised # None THEN acc
    ELSE
      LET argname == args[i][1]
          types == args[i][2]
          sel == _select_type(types, inj, ext, ov, rec)
          sel_cls == sel[1]
          arg_overrides == sel[2]
          called == sel_cls # None /\ ~HasKey(acc.plan_od, sel_cls)
          sub == _plan(sel_cls, inj, ext, TRUE, dependency_stack,
                       arg_overrides, rec)
          errors == IF called THEN sub.errors ELSE << >>
          plan_od == IF called THEN Update(acc.plan_od, sub.plan)
                     ELSE acc.plan_od
          err_case == IF types = << >>
                      THEN LackingAnnotationErrCase(argname, cls)
                      ELSE NonInjectableOrExternalErrCase(argname, cls, types)
          next ==
            IF sel_cls # None
            THEN IF called /\ sub.raised # None
                 THEN [acc EXCEPT !.raised = sub.raised,
                                  !.frames = acc.frames \o CalledBy(acc.frames[1], sub.frames)]
                 ELSE [acc EXCEPT
                         !.plan_od = plan_od,
                         !.frames = IF called
                                    THEN acc.frames
                                           \o MergedInto(acc.plan_od, sub.plan,
                                                plan_od,
                                                CalledBy(acc.frames[1],
                                                         sub.frames))
                                    ELSE acc.frames,
                         !.args_errs =
                            IF errors # << >>
                            THEN SetItem(acc.args_errs, argname,
                                   Get(acc.args_errs, argname, << >>) \o errors)
                            ELSE acc.args_errs,
                         !.type_for_arg =
                            IF errors # << >> THEN acc.type_for_arg
                            ELSE SetItem(acc.type_for_arg, argname, sel_cls)]
            ELSE [acc EXCEPT
                    !.non_injectable_errs =
                       SetItem(acc.non_injectable_errs, argname,
                         Append(Get(acc.non_injectable_errs, argname, << >>),
                                err_case))]
      IN  ArgLoop(cls, args, i + 1, next, inj, ext, dependency_stack, ov, rec)

\* _plan from "dependency_stack = dependency_stack + [class_or_func]" on:
\* inspect the node, plan its arguments, manage the errors, fill the plan.
Expand(cls, inj, ext, ffk, stack_arg, ov, rec) ==
    LET is_root_call == stack_arg = << >>
        dependency_stack == Push(stack_arg, cls)
        args == inspect(cls)
        acc0 == [plan_od |-> << >>, type_for_arg |-> << >>,
                 args_errs |-> << >>, non_injectable_errs |-> << >>,
                 raised |-> None,
                 frames |-> << Frame(cls, stack_arg, ffk, ov, "inspected") >>]
        acc == ArgLoop(cls, args, 1, acc0, inj, ext, dependency_stack, ov, rec)
        args_errs == ErrorManaging(ffk, acc.args_errs, acc.non_injectable_errs)
        plan_od == IF args_errs = << >>
                   THEN SetItem(acc.plan_od, cls, acc.type_for_arg)
                   ELSE acc.plan_od
    IN  IF acc.raised # None
        THEN Raised(acc.raised, None, << >>, acc.frames)
        ELSE IF is_root_call /\ args_errs # << >>
        THEN Raised("NonProvidableError", cls, args_errs, acc.frames)
        ELSE Returned(plan_od, acc.non_injectable_errs = << >>,
                      Flatten(args_errs), acc.frames)

\* Mutant of _plan: an injectable node is inspected even when it is
\* externally provided.
_plan_injectable_first(cls, inj, ext, ffk, stack_arg, ov, rec) ==
    IF cls \in ext /\ cls \notin inj
    THEN Returned(<< <<cls, << >> >> >>, TRUE, << >>,
                  << Frame(cls, stack_arg, ffk, ov, "external") >>)
    ELSE IF ~(stack_arg = << >> \/ cls \in inj)
    THEN Raised("AssertionError", None, << >>,
                << Frame(cls, stack_arg, ffk, ov, "assert") >>)
    ELSE IF \E k \in DOMAIN stack_arg : stack_arg[k] = cls
    THEN Returned(<< >>, FALSE, CyclicErrors(cls, stack_arg),
                  << Frame(cls, stack_arg, ffk, ov, "cyclic") >>)
    ELSE Expand(cls, inj, ext, ffk, stack_arg, ov, rec)

\* Mutant of _plan: a cycle is detected only when the node is on the stack
\* twice already.
_plan_cycle_second_time(cls, inj, ext, ffk, stack_arg, ov, rec) ==
    IF cls \in ext
    THEN Returned(<< <<cls, << >> >> >>, TRUE, << >>,
                  << Frame(cls, stack_arg, ffk, ov, "external") >>)
    ELSE IF ~(stack_arg = << >> \/ cls \in inj)
    THEN Raised("AssertionError", None, << >>,
                << Frame(cls, stack_arg, ffk, ov, "assert") >>)
    ELSE IF Cardinality({k \in DOMAIN stack_arg : stack_arg[k] = cls}) >= 2
    THEN Returned(<< >>, FALSE, CyclicErrors(cls, stack_arg),
                  << Frame(cls, stack_arg, ffk, ov, "cyclic") >>)
    ELSE Expand(cls, inj, ext, ffk, stack_arg, ov, rec)

\* Mutant of _plan: the root has to be injectable too.
_plan_root_asserted(cls, inj, ext, ffk, stack_arg, ov, rec) ==
    IF cls \in ext
    THEN Returned(<< <<cls, << >> >> >>, TRUE, << >>,
                  << Frame(cls, stack_arg, ffk, ov, "external") >>)
    ELSE IF cls \notin inj
    THEN Raised("AssertionError", None, << >>,
                << Frame(cls, stack_arg, ffk, ov, "assert") >>)
    ELSE IF \E k \in DOMAIN stack_arg : stack_arg[k] = cls
    THEN Returned(<< >>, FALSE, CyclicErrors(cls, stack_arg),
                  << Frame(cls, stack_arg, ffk, ov, "cyclic") >>)
    ELSE Expand(cls, inj, ext, ffk, stack_arg, ov, rec)

\* _plan: stack_arg is "dependency_stack or []"
_plan(cls, inj, ext, ffk, stack_arg, ov, rec) ==
    LET is_root_call == stack_arg = << >>
    IN
    IF cls \in ext
    THEN Returned(<< <<cls, << >> >> >>, TRUE, << >>,
                  << Frame(cls, stack_arg, ffk, ov, "external") >>)
    ELSE IF ~(is_root_call \/ cls \in inj)
    THEN Raised("AssertionError", None, << >>,
                << Frame(cls, stack_arg, ffk, ov, "assert") >>)
    ELSE IF \E k \in DOMAIN stack_arg : stack_arg[k] = cls
    THEN Returned(<< >>, FALSE, CyclicErrors(cls, stack_arg),
                  << Frame(cls, stack_arg, ffk, ov, "cyclic") >>)
    ELSE Expand(cls, inj, ext, ffk, stack_arg, ov, rec)

\* Mutant of DefaultStack: the default is one list shared by all the calls,
\* in which the root target of an earlier call is left behind.
DefaultStack_shared ==
    IF pc = "start" THEN << >> ELSE << result.frames[1].class_or_func >>

\* "dependency_stack or []": the stack of a call that was given none is a
\* new, empty list
DefaultStack == << >>

\* Mutant of plan: the root target is not overridden.
plan_root_not_overridden(cls, inj, ext, ffk, ov, rec) ==
    _plan(cls, inj, ext, ffk, << >>, ov, rec)

\* Mutant of plan: the overrides stay in force beneath an overridden root.
plan_root_keeps_overrides(cls, inj, ext, ffk, ov, rec) ==
    _plan(_may_override(cls, ov, rec)[1], inj, ext, ffk, << >>, ov, rec)

\* plan(): the entry point
plan(cls, inj, ext, ffk, ov, rec) ==
    LET mo == _may_override(cls, ov, rec)
    IN  _plan(mo[1], inj, ext, ffk, DefaultStack, mo[2], rec)


(***************************************************************************)
(* One run: the inputs of a call, the call, the build loop over its plan.  *)
(***************************************************************************)
\* the entries an overrides mapping is drawn from
OverridePairs ==
    { <<"A", "B">>, <<"B", "A">>, <<"B", "C">>, <<"C", "D">>, <<"E", "E">> }

\* dict.get of a dict with the entries ps
OverridesGet(ps) ==
    [n \in Nodes |-> IF \E p \in ps : p[1] = n
                     THEN (CHOOSE p \in ps : p[1] = n)[2] ELSE None]

OverrideFns ==
    { OverridesGet(ps) : ps \in
        { qs \in SUBSET OverridePairs :
            /\ Cardinality(qs) <= MaxOverrides
            /\ \A p, q \in qs : p[1] = q[1] => p = q } }

Init ==
    /\ arguments \in Graphs
    /\ class_or_func \in Roots(arguments)
    /\ is_injectable \in
         { Nodes \ s : s \in { t \in SUBSET Nodes :
                                 Cardinality(t) <= MaxNonInjectable } }
    /\ externally_provided \in
         { s \in SUBSET Nodes : Cardinality(s) <= MaxExternal }
    /\ full_final_kwargs \in BOOLEAN
    /\ overrides \in OverrideFns
    /\ recursive_overrides \in BOOLEAN
    /\ pc = "start"
    /\ result = None
    /\ instances = {}
    /\ step = 1
    /\ again = << >>

inputs == <<arguments, class_or_func, is_injectable, externally_provided,
            full_final_kwargs, overrides, recursive_overrides>>

\* plan = andi.plan(class_or_func, ...)
Plan ==
    /\ pc = "start"
    /\ result' = plan(class_or_func, is_injectable, externally_provided,
                      full_final_kwargs, overrides, recursive_overrides)
    /\ pc' = IF result'.raised = None THEN "planned" ELSE "raised"
    /\ UNCHANGED <<inputs, instances, step, again>>

\* KwargsSpec.kwargs(instances): instances[cls] for every value; a missing
\* key is a KeyError
KwargsLookupFails(kwargs_spec, built) ==
    \E i \in DOMAIN kwargs_spec : kwargs_spec[i][2] \notin built

\* Mutant of dependencies: the plan without its first step.
dependencies_without_first(steps) == Tail(steps)

\* Plan.dependencies: self[:-1]
dependencies(steps) == SubSeq(steps, 1, Len(steps) - 1)

\* Plan.final_kwargs(instances): self[-1][1].kwargs(instances); built are
\* the keys of instances
final_kwargs(steps, built) ==
    IF KwargsLookupFails(steps[Len(steps)][2], built)
    THEN [raised |-> "KeyError", kwargs |-> << >>]
    ELSE [raised |-> None, kwargs |-> steps[Len(steps)][2]]

\* One iteration of the build loop:
\*   instances[fn_or_cls] = fn_or_cls(**kwargs_spec.kwargs(instances))
Build ==
    /\ pc = "planned"
    /\ step <= Len(result.plan)
    /\ LET fn_or_cls == result.plan[step][1]
           kwargs_spec == result.plan[step][2]
       IN  IF KwargsLookupFails(kwargs_spec, instances)
           THEN /\ pc' = "KeyError"
                /\ UNCHANGED <<instances, step>>
           ELSE /\ instances' = instances \cup {fn_or_cls}
                /\ step' = step + 1
                /\ pc' = IF step = Len(result.plan) THEN "built" ELSE "planned"
    /\ UNCHANGED <<inputs, result, again>>

\* plan2 = andi.plan(class_or_func, ...): the same call once more, after
\* the first one has raised or its plan has been run
PlanAgain ==
    /\ pc \in {"raised", "built", "KeyError"}
    /\ again = << >>
    /\ again' = << plan(class_or_func, is_injectable, externally_provided,
                        full_final_kwargs, overrides, recursive_overrides) >>
    /\ UNCHANGED <<inputs, pc, result, instances, step>>

Next == Plan \/ Build \/ PlanAgain

Spec == Init /\ [][Next]_vars

(***************************************************************************)
(* Properties.                                                             *)
(***************************************************************************)
\* plan() has just been called (result does not change afterwards)
AfterPlan ==
    /\ pc = "raised" \/ (pc = "planned" /\ step = 1)
    /\ again = << >>

PlanReturned == AfterPlan /\ result.raised = None

PlanRaised == AfterPlan /\ result.raised = "NonProvidableError"

StepNodes(steps) == {steps[i][1] : i \in DOMAIN steps}

\* the root target: class_or_func after the overrides were applied once
RootTarget ==
    IF overrides[class_or_func] # None THEN overrides[class_or_func]
    ELSE class_or_func

\* C1 (topological validity): in every returned plan every node bound in a
\* step's kwargs_spec is the node of a strictly earlier step, so the build
\* loop never looks up an instance that was not built.
C1_TopologicalValidity ==
    /\ PlanReturned =>
         \A i \in DOMAIN result.plan :
           \A v \in Values(result.plan[i][2]) :
             \E j \in 1 .. (i - 1) : result.plan[j][1] = v
    /\ pc # "KeyError"

\* C2 (deduplication): in every returned plan no node is the node of more
\* than one step.
C2_Deduplication ==
    PlanReturned =>
      \A i, j \in DOMAIN result.plan :
        result.plan[i][1] = result.plan[j][1] => i = j

\* a returned plan in which some node is bound by two different steps, i.e.
\* it was reached along several dependency paths
C2_Witness ==
    /\ PlanReturned
    /\ \E i, j \in DOMAIN result.plan :
         /\ i # j
         /\ Values(result.plan[i][2]) \cap Values(result.plan[j][2]) # {}
         /\ result.plan[i][2] # << >>

\* C3 (final step): the last step of every returned plan is the step of the
\* root target (class_or_func after one application of overrides), and no
\* other step is the root target's.
C3_FinalStepIsRoot ==
    PlanReturned =>
      /\ result.plan # << >>
      /\ result.plan[Len(result.plan)][1] = RootTarget
      /\ \A i \in 1 .. (Len(result.plan) - 1) : result.plan[i][1] # RootTarget

\* a returned plan of several steps for an overridden root
C3_Witness ==
    /\ PlanReturned
    /\ RootTarget # class_or_func
    /\ Len(result.plan) > 1

\* the overrides the root target is planned with
RootOverrides ==
    _may_override(class_or_func, overrides, recursive_overrides)[2]

\* a candidate after one application of the overrides ov
Replaced(candidate, ov) ==
    IF ov[candidate] # None THEN ov[candidate] ELSE candidate

Acceptable(cls) == cls \in is_injectable \/ cls \in externally_provided

\* no candidate of the list is acceptable to the policies
NoCandidate(types, ov) ==
    \A i \in DOMAIN types : ~Acceptable(Replaced(types[i], ov))

ArgNames(args) == {args[i][1] : i \in DOMAIN args}

\* the parameters of node cls, planned with overrides ov, without candidate
Unresolved(cls, ov) ==
    {inspect(cls)[i][1] : i \in
        {k \in DOMAIN inspect(cls) : NoCandidate(inspect(cls)[k][2], ov)}}

\* every root parameter that has a candidate is resolved by planning that
\* candidate beneath the root
RootOthersResolve ==
    \A i \in DOMAIN inspect(RootTarget) :
      LET sel == _select_type(inspect(RootTarget)[i][2], is_injectable,
                              externally_provided, RootOverrides,
                              recursive_overrides)
          sub == _plan(sel[1], is_injectable, externally_provided, TRUE,
                       << RootTarget >>, sel[2], recursive_overrides)
      IN  sel[1] # None => sub.raised = None /\ sub.errors = << >>

LastKwargs == result.plan[Len(result.plan)][2]

\* what C4 says of a call whose root has unresolved parameters
PartialOrFull ==
    IF ~full_final_kwargs
    THEN /\ result.raised = None
         /\ Keys(LastKwargs) =
              ArgNames(inspect(RootTarget)) \ Unresolved(RootTarget, RootOverrides)
    ELSE /\ result.raised = "NonProvidableError"
         /\ Keys(result.errors_per_argument) =
              Unresolved(RootTarget, RootOverrides)
         /\ \A i \in DOMAIN result.errors_per_argument :
              LET errs == result.errors_per_argument[i][2]
              IN  /\ Len(errs) = 1
                  /\ errs[1].case \in {"LackingAnnotationErrCase",
                                       "NonInjectableOrExternalErrCase"}

\* C4 as stated (partial versus full completion at the root): when a root
\* parameter has no acceptable candidate and every other parameter resolves,
\* full_final_kwargs=False returns a plan whose final kwargs_spec omits
\* exactly the unresolved parameters and full_final_kwargs=True raises
\* NonProvidableError with exactly the unresolved parameters as keys, each
\* with one LackingAnnotationErrCase or NonInjectableOrExternalErrCase.
C4_Original ==
    (AfterPlan /\ Unresolved(RootTarget, RootOverrides) # {}
       /\ RootOthersResolve)
    => PartialOrFull

\* C4 as amended: the same, for a root target that is not externally
\* provided (an externally provided root is never inspected and always
\* yields [(root, {})]).
C4_PartialVsFull ==
    (AfterPlan /\ RootTarget \notin externally_provided
       /\ Unresolved(RootTarget, RootOverrides) # {}
       /\ RootOthersResolve)
    => PartialOrFull

\* full_final_kwargs=True raised for a root of which one parameter has no
\* candidate while another one resolves
C4_Witness ==
    /\ PlanRaised
    /\ full_final_kwargs
    /\ RootTarget \notin externally_provided
    /\ Unresolved(RootTarget, RootOverrides) # {}
    /\ Unresolved(RootTarget, RootOverrides) # ArgNames(inspect(RootTarget))
    /\ RootOthersResolve

Range(seq) == {seq[i] : i \in DOMAIN seq}

\* A selected, injectable, non-root node that cannot be fully resolved: one
\* of its parameters has no acceptable candidate, or its chain of selected
\* candidates came back to it.
Broken(f) ==
    /\ f.dependency_stack # << >>
    /\ f.class_or_func \in is_injectable
    /\ \/ Unresolved(f.class_or_func, f.overrides) # {}
       \/ f.class_or_func \in Range(f.dependency_stack)

\* the steps before the final one all have a complete kwargs_spec
NoDroppedParameter(skip) ==
    \A i \in 1 .. (Len(result.plan) - 1) :
      result.plan[i][1] \in (is_injectable \ skip) =>
        Keys(result.plan[i][2]) = ArgNames(inspect(result.plan[i][1]))

\* C5 as stated (a chosen dependency that cannot be fully resolved is
\* fatal): if a selected, injectable, non-root node has a parameter without
\* acceptable candidate or lies on a cycle, plan() raises NonProvidableError
\* whatever full_final_kwargs is, and no returned plan drops such a
\* parameter.
C5_Original ==
    AfterPlan =>
      /\ \A i \in DOMAIN result.frames :
           Broken(result.frames[i]) => result.raised = "NonProvidableError"
      /\ result.raised = None => NoDroppedParameter({})

\* C5 as amended: the same for the selected nodes that are not externally
\* provided; an externally provided node is never inspected, so its
\* parameters are never a failure and its step has an empty kwargs_spec.
C5_ChosenBrokenIsFatal ==
    AfterPlan =>
      /\ \A i \in DOMAIN result.frames :
           (/\ Broken(result.frames[i])
            /\ result.frames[i].class_or_func \notin externally_provided)
           => result.raised = "NonProvidableError"
      /\ result.raised = None => NoDroppedParameter(externally_provided)

\* plan(..., full_final_kwargs=False) raised although every parameter of
\* the root has a candidate: a node two levels beneath the root is broken
C5_Witness ==
    /\ PlanRaised
    /\ ~full_final_kwargs
    /\ Unresolved(RootTarget, RootOverrides) = {}
    /\ \E i \in DOMAIN result.frames :
         /\ Broken(result.frames[i])
         /\ result.frames[i].class_or_func \notin externally_provided
         /\ Len(result.frames[i].dependency_stack) >= 2
         /\ Unresolved(result.frames[i].class_or_func,
                       result.frames[i].overrides) # {}

\* the node the selector has to pick: the first candidate (after override)
\* that is_injectable or externally_provided accepts, None if there is none
FirstAcceptable(types, ov) ==
    IF NoCandidate(types, ov) THEN None
    ELSE LET first == CHOOSE i \in DOMAIN types :
                        /\ Acceptable(Replaced(types[i], ov))
                        /\ \A k \in 1 .. (i - 1) :
                             ~Acceptable(Replaced(types[k], ov))
         IN  Replaced(types[first], ov)

\* The graph of selected candidates when one overrides function is in force
\* in the whole tree (recursive overrides, or none left beneath the root):
\* the nodes a node requires; externally provided nodes require nothing.
ScopeFree == recursive_overrides \/ RootOverrides = _empty_overrides

Requires(cls) ==
    IF cls \in externally_provided THEN {}
    ELSE {FirstAcceptable(inspect(cls)[i][2], RootOverrides) :
            i \in DOMAIN inspect(cls)} \ {None}

RECURSIVE Closure(_)
Closure(S) ==
    LET more == S \cup UNION {Requires(n) : n \in S}
    IN  IF more = S THEN S ELSE Closure(more)

\* the root target reaches a node whose chain of selected candidates
\* returns to itself
ReachesCycle ==
    \E n \in Closure({RootTarget}) : n \in Closure(Requires(n))

AllErrors == Flatten(result.errors_per_argument)

\* what the steps of the returned plan bind, transitively
RECURSIVE BoundClosure(_)
BoundClosure(S) ==
    LET more == S \cup UNION {Values(result.plan[i][2]) :
                   i \in {k \in DOMAIN result.plan : result.plan[k][1] \in S}}
    IN  IF more = S THEN S ELSE BoundClosure(more)

\* C6 (cycle detection): when a node's chain of selected candidates returns
\* to itself, plan() raises NonProvidableError containing the
\* CyclicDependencyErrCase of that node, and no returned plan has steps that
\* depend on each other.
C6_CycleDetection ==
    AfterPlan =>
      /\ \A i \in DOMAIN result.frames :
           LET f == result.frames[i]
           IN  (f.class_or_func \notin externally_provided
                  /\ f.class_or_func \in Range(f.dependency_stack))
               => /\ result.raised = "NonProvidableError"
                  /\ \E k \in DOMAIN AllErrors :
                       AllErrors[k] = CyclicDependencyErrCase(
                                        f.class_or_func, f.dependency_stack)
      /\ (ScopeFree /\ ReachesCycle) =>
           /\ result.raised = "NonProvidableError"
           /\ \E k \in DOMAIN AllErrors :
                AllErrors[k].case = "CyclicDependencyErrCase"
      /\ result.raised = None =>
           \A i \in DOMAIN result.plan :
             result.plan[i][1] \notin BoundClosure(Values(result.plan[i][2]))

\* every node injectable, none externally provided, and a node was
\* re-encountered two levels beneath itself (A requires B, B requires A)
C6_Witness ==
    /\ PlanRaised
    /\ is_injectable = Nodes
    /\ externally_provided = {}
    /\ \E i \in DOMAIN result.frames :
         LET f == result.frames[i]
         IN  /\ Len(f.dependency_stack) >= 2
             /\ f.class_or_func = f.dependency_stack[Len(f.dependency_stack) - 1]
             /\ f.class_or_func # RootTarget

\* C7 (cyclic example): for the classes A..E of the tests, all injectable
\* and nothing externally provided, plan(E) raises NonProvidableError for
\* both values of full_final_kwargs; the error map has exactly the keys c
\* and d, c with CyclicDependencyErrCase(E, [E, C, A]) and d with
\* CyclicDependencyErrCase(E, [E, D, A]) and
\* CyclicDependencyErrCase(E, [E, D, C, A]).
C7_CyclicExample ==
    (/\ AfterPlan
     /\ arguments = TestGraph
     /\ class_or_func = "E"
     /\ is_injectable = Nodes
     /\ externally_provided = {}
     /\ overrides = _empty_overrides)
    => /\ result.raised = "NonProvidableError"
       /\ result.class_or_func = "E"
       /\ Keys(result.errors_per_argument) = {"c", "d"}
       /\ Get(result.errors_per_argument, "c", << >>) =
            << CyclicDependencyErrCase("E", <<"E", "C", "A">>) >>
       /\ Get(result.errors_per_argument, "d", << >>) =
            << CyclicDependencyErrCase("E", <<"E", "D", "A">>),
               CyclicDependencyErrCase("E", <<"E", "D", "C", "A">>) >>

\* the call of the example with full_final_kwargs=False has raised
C7_Witness ==
    /\ PlanRaised
    /\ arguments = TestGraph
    /\ class_or_func = "E"
    /\ is_injectable = Nodes
    /\ externally_provided = {}
    /\ overrides = _empty_overrides
    /\ ~full_final_kwargs

\* C8 (external-provision short-circuit): an externally provided node is
\* never inspected and its step has an empty kwargs_spec, injectable or not
\* and whatever its parameters are; for an externally provided root target
\* plan() returns exactly [(root, {})] with full_final_kwargs True.
C8_ExternalShortCircuit ==
    AfterPlan =>
      /\ \A i \in DOMAIN result.frames :
           result.frames[i].class_or_func \in externally_provided
             => result.frames[i].outcome = "external"
      /\ \A i \in DOMAIN result.plan :
           result.plan[i][1] \in externally_provided
             => result.plan[i][2] = << >>
      /\ RootTarget \in externally_provided =>
           /\ result.raised = None
           /\ result.plan = << <<RootTarget, << >> >> >>
           /\ result.full_final_kwargs

\* a returned plan with a step, before the final one, for a node that is
\* externally provided and injectable and has a parameter
C8_Witness ==
    /\ PlanReturned
    /\ \E i \in 1 .. (Len(result.plan) - 1) :
         /\ result.plan[i][1] \in externally_provided \cap is_injectable
         /\ inspect(result.plan[i][1]) # << >>

\* C9 (first acceptable candidate wins): for every parameter the selected
\* node is the first candidate, after override, that is_injectable or
\* externally_provided accepts, whatever the later candidates are, and None
\* if no candidate is acceptable; the root's kwargs_spec binds exactly the
\* nodes so selected.
C9_FirstAcceptableWins ==
    AfterPlan =>
      /\ \A i \in DOMAIN result.frames :
           LET f == result.frames[i]
               args == inspect(f.class_or_func)
           IN  f.outcome = "inspected" =>
                 \A k \in DOMAIN args :
                   _select_type(args[k][2], is_injectable,
                                externally_provided, f.overrides,
                                recursive_overrides)[1]
                     = FirstAcceptable(args[k][2], f.overrides)
      /\ (result.raised = None /\ RootTarget \notin externally_provided) =>
           \A k \in DOMAIN inspect(RootTarget) :
             Get(LastKwargs, inspect(RootTarget)[k][1], None)
               = FirstAcceptable(inspect(RootTarget)[k][2], RootOverrides)

\* a returned plan whose root has a parameter with two different acceptable
\* candidates, of which the first is bound
C9_Witness ==
    /\ PlanReturned
    /\ RootTarget \notin externally_provided
    /\ \E k \in DOMAIN inspect(RootTarget) :
         LET types == inspect(RootTarget)[k][2]
         IN  /\ Len(types) = 2
             /\ Acceptable(Replaced(types[1], RootOverrides))
             /\ Acceptable(Replaced(types[2], RootOverrides))
             /\ Replaced(types[1], RootOverrides)
                  # Replaced(types[2], RootOverrides)
             /\ Get(LastKwargs, inspect(RootTarget)[k][1], None)
                  = Replaced(types[1], RootOverrides)

\* the overrides are {a: b}.get with a # b
SingleOverride(a, b) ==
    /\ a # b
    /\ overrides = [n \in Nodes |-> IF n = a THEN b ELSE None]

\* the candidates a node names, and the nodes reachable through them
Candidates(cls) == UNION {Range(inspect(cls)[i][2]) : i \in DOMAIN inspect(cls)}

RECURSIVE CandidateClosure(_)
CandidateClosure(S) ==
    LET more == S \cup UNION {Candidates(n) : n \in S}
    IN  IF more = S THEN S ELSE CandidateClosure(more)

DependsOn(cls, a) == a \in CandidateClosure(Candidates(cls))

\* the steps of a plan in which node a appears, as the node or as a value
\* of the kwargs_spec
StepsWith(steps, a) ==
    {steps[i] : i \in {j \in DOMAIN steps :
        \/ steps[j][1] = a
        \/ a \in Values(steps[j][2])}}

\* the plan of b with no overrides at all
NoOverrides(b, ffk) ==
    plan(b, is_injectable, externally_provided, ffk, _empty_overrides,
         recursive_overrides)

\* C10 as stated (override idempotence, non-recursive scoping): with
\* overrides {A: B}.get and recursive_overrides False, the plan of a node
\* that depends on A never contains A, as a step node or as a kwargs_spec
\* value, and the steps of B are those of B's plan with no overrides.
C10_Original ==
    \A a, b \in Nodes :
      ( /\ PlanReturned
        /\ ~recursive_overrides
        /\ SingleOverride(a, b)
        /\ class_or_func # a
        /\ DependsOn(class_or_func, a) ) =>
          /\ StepsWith(result.plan, a) = {}
          /\ (b \in StepNodes(result.plan) /\ class_or_func # b) =>
               /\ NoOverrides(b, TRUE).raised = None
               /\ Range(NoOverrides(b, TRUE).plan) \subseteq Range(result.plan)

\* C10 (override idempotence, non-recursive scoping), amended: with
\* overrides {A: B}.get and recursive_overrides False, A appears in a
\* returned plan only in steps of B's own plan with no overrides; when B is
\* in the plan in place of A, all the steps of B's plan with no overrides
\* are in the plan unchanged; and planning A itself is planning B with no
\* overrides.
C10_NonRecursiveScoping ==
    \A a, b \in Nodes :
      (AfterPlan /\ ~recursive_overrides /\ SingleOverride(a, b)) =>
        /\ class_or_func = a =>
             LET nb == NoOverrides(b, full_final_kwargs)
             IN  /\ result.raised = nb.raised
                 /\ result.plan = nb.plan
                 /\ result.errors_per_argument = nb.errors_per_argument
        /\ (result.raised = None /\ class_or_func # a) =>
             StepsWith(result.plan, a)
               \subseteq Range(NoOverrides(b, TRUE).plan)
        /\ ( /\ result.raised = None
             /\ b \in StepNodes(result.plan)
             /\ class_or_func \notin {a, b} ) =>
               /\ NoOverrides(b, TRUE).raised = None
               /\ Range(NoOverrides(b, TRUE).plan) \subseteq Range(result.plan)

\* a returned plan of a node that depends on A, under {A: B}.get and
\* recursive_overrides False, where B replaces A and B's own plan with no
\* overrides contains A
C10_Witness ==
    \E a, b \in Nodes :
      /\ PlanReturned
      /\ ~recursive_overrides
      /\ SingleOverride(a, b)
      /\ class_or_func # a
      /\ DependsOn(class_or_func, a)
      /\ b \in StepNodes(result.plan)
      /\ StepsWith(result.plan, a) # {}
      /\ StepsWith(result.plan, a) \subseteq Range(NoOverrides(b, TRUE).plan)

\* the candidate, as declared, that the selector picks for a parameter
RawFirst(types, ov) ==
    IF NoCandidate(types, ov) THEN None
    ELSE types[CHOOSE i \in DOMAIN types :
                 /\ Acceptable(Replaced(types[i], ov))
                 /\ \A k \in 1 .. (i - 1) : ~Acceptable(Replaced(types[k], ov))]

\* under recursive overrides x is overridden by y, and the dependency tree
\* of y (selected candidates, externally provided nodes being leaves) has a
\* node that picks x
TreeRequiresOverridden(x, y) ==
    /\ recursive_overrides
    /\ x # y
    /\ overrides[x] = y
    /\ \E n \in Closure({y}) \ externally_provided :
         \E k \in DOMAIN inspect(n) : RawFirst(inspect(n)[k][2], overrides) = x

\* plan() raised NonProvidableError with a CyclicDependencyErrCase for y
CyclicCaseFor(y) ==
    /\ result.raised = "NonProvidableError"
    /\ \E k \in DOMAIN AllErrors :
         /\ AllErrors[k].case = "CyclicDependencyErrCase"
         /\ AllErrors[k].class_or_func = y

\* C11 as stated (recursive overrides of a wrapper): with
\* recursive_overrides=True, when a node X of the tree is overridden by a
\* replacement Y whose own dependency tree requires X, plan() raises
\* NonProvidableError with a CyclicDependencyErrCase for Y.
C11_Original ==
    AfterPlan =>
      \A x, y \in Nodes :
        (TreeRequiresOverridden(x, y) /\ y \in Closure({RootTarget}))
          => CyclicCaseFor(y)

\* C11 (recursive overrides of a wrapper), amended: with
\* recursive_overrides=True, when the planned node X itself is overridden by
\* a replacement Y whose own dependency tree requires X, plan() raises
\* NonProvidableError with a CyclicDependencyErrCase for Y, whose stack
\* starts at Y; when Y replaces X beneath the root, plan() raises
\* NonProvidableError with some CyclicDependencyErrCase; and
\* plan(C, is_injectable=all, externally_provided={A}, overrides={C: D}.get)
\* for the classes of the tests fails with exactly
\* c: [CyclicDependencyErrCase(D, [D])].
C11_RecursiveWrapperIsCyclic ==
    AfterPlan =>
      /\ \A x, y \in Nodes :
           (TreeRequiresOverridden(x, y) /\ y \in Closure({RootTarget})) =>
             /\ result.raised = "NonProvidableError"
             /\ \E k \in DOMAIN AllErrors :
                  AllErrors[k].case = "CyclicDependencyErrCase"
             /\ class_or_func = x =>
                  \E k \in DOMAIN AllErrors :
                    /\ AllErrors[k].case = "CyclicDependencyErrCase"
                    /\ AllErrors[k].class_or_func = y
                    /\ Head(AllErrors[k].dependency_stack) = y
      /\ ( /\ arguments = TestGraph
           /\ class_or_func = "C"
           /\ is_injectable = Nodes
           /\ externally_provided = {"A"}
           /\ overrides = OverridesGet({<<"C", "D">>})
           /\ recursive_overrides ) =>
             /\ result.raised = "NonProvidableError"
             /\ result.class_or_func = "D"
             /\ result.errors_per_argument =
                  << <<"c", << CyclicDependencyErrCase("D", <<"D">>) >> >> >>

\* the call of the example, with full_final_kwargs=False, has raised
C11_Witness ==
    /\ PlanRaised
    /\ arguments = TestGraph
    /\ class_or_func = "C"
    /\ is_injectable = Nodes
    /\ externally_provided = {"A"}
    /\ overrides = OverridesGet({<<"C", "D">>})
    /\ recursive_overrides
    /\ ~full_final_kwargs
    /\ TreeRequiresOverridden("C", "D")

\* the frames of the calls made beneath the call of frame i: the frames that
\* follow it with a longer dependency stack
Beneath(i) ==
    {j \in DOMAIN result.frames :
       /\ j > i
       /\ \A k \in (i + 1) .. j :
            Len(result.frames[k].dependency_stack)
              > Len(result.frames[i].dependency_stack)}

\* the index of the step of node n (0 if there is none)
StepIndex(n) ==
    IF n \in StepNodes(result.plan)
    THEN CHOOSE i \in DOMAIN result.plan : result.plan[i][1] = n
    ELSE 0

\* C12 (non-recursive overrides of a wrapper): with
\* recursive_overrides=False no override is applied beneath an occurrence of
\* a replacement: every call beneath a call whose overrides are switched off
\* has them switched off, and a node that is not a declared candidate of its
\* parent (it replaced one) is planned with the overrides switched off.
\* Planning a node X overridden by Y gives exactly the result of planning Y
\* with no overrides, whatever other override entries there are; in a
\* returned plan a replacement Y of X that itself requires X has X's step
\* before its own and binds X; and for the classes of the tests, A
\* externally provided, plan(C, overrides={C: D}.get) and
\* plan(C, overrides={C: D, A: B}.get) both return
\* [(A,{}), (B,{}), (C,{a: A, b: B}), (D,{a: A, c: C})].
C12_NonRecursiveWrapper ==
    (AfterPlan /\ ~recursive_overrides) =>
      /\ \A i \in DOMAIN result.frames :
           LET f == result.frames[i]
           IN  /\ f.overrides \in {overrides, _empty_overrides}
               /\ f.overrides = _empty_overrides =>
                    \A j \in Beneath(i) :
                      result.frames[j].overrides = _empty_overrides
               /\ ( /\ f.dependency_stack # << >>
                    /\ f.class_or_func \notin Candidates(
                         f.dependency_stack[Len(f.dependency_stack)]) )
                  => f.overrides = _empty_overrides
      /\ RootTarget # class_or_func =>
           LET ny == NoOverrides(RootTarget, full_final_kwargs)
           IN  /\ result.raised = ny.raised
               /\ result.plan = ny.plan
               /\ result.full_final_kwargs = ny.full_final_kwargs
               /\ result.errors_per_argument = ny.errors_per_argument
      /\ result.raised = None =>
           \A x, y \in Nodes :
             ( /\ x # y
               /\ overrides[x] = y
               /\ y # class_or_func
               /\ y \in StepNodes(result.plan) \ externally_provided ) =>
                 \A k \in DOMAIN inspect(y) :
                   RawFirst(inspect(y)[k][2], _empty_overrides) = x =>
                     /\ StepIndex(x) > 0
                     /\ StepIndex(x) < StepIndex(y)
                     /\ Get(result.plan[StepIndex(y)][2], inspect(y)[k][1],
                            None) = x
      /\ ( /\ arguments = TestGraph
           /\ class_or_func = "C"
           /\ is_injectable = Nodes
           /\ externally_provided = {"A"}
           /\ overrides \in {OverridesGet({<<"C", "D">>}),
                             OverridesGet({<<"C", "D">>, <<"A", "B">>})} ) =>
             /\ result.raised = None
             /\ result.plan =
                  << <<"A", << >> >>, <<"B", << >> >>,
                     <<"C", << <<"a", "A">>, <<"b", "B">> >> >>,
                     <<"D", << <<"a", "A">>, <<"c", "C">> >> >> >>

\* the call of the example with the further entry A: B has returned: the
\* replacement D of C binds C, whose step is before D's
C12_Witness ==
    /\ PlanReturned
    /\ ~recursive_overrides
    /\ arguments = TestGraph
    /\ class_or_func = "C"
    /\ externally_provided = {"A"}
    /\ overrides = OverridesGet({<<"C", "D">>, <<"A", "B">>})
    /\ StepIndex("C") > 0
    /\ StepIndex("C") < StepIndex("D")
    /\ Get(LastKwargs, "c", None) = "C"

C13_WitnessRaised ==
    /\ again # << >>
    /\ pc = "raised"
    /\ again[1].raised = "NonProvidableError"
    /\ Len(Flatten(again[1].errors_per_argument)) >= 2

\* the call of the end-to-end example: the classes of the tests, all
\* injectable, only A externally provided, plan(E) without overrides
EndToEndCall ==
    /\ arguments = TestGraph
    /\ class_or_func = "E"
    /\ is_injectable = Nodes
    /\ externally_provided = {"A"}
    /\ overrides = _empty_overrides

\* C14 (end-to-end example): plan(E) of the example returns a plan of five
\* steps in which A and B precede C, C and A precede D, and B, C and D
\* precede E; the steps from the third on are (C,{a: A, b: B}),
\* (D,{a: A, c: C}) and (E,{b: B, c: C, d: D}); the steps of A and B have an
\* empty kwargs_spec; full_final_kwargs is True.
C14_EndToEndExample ==
    (AfterPlan /\ EndToEndCall) =>
      /\ result.raised = None
      /\ Len(result.plan) = 5
      /\ StepNodes(result.plan) = Nodes
      /\ StepIndex("A") < StepIndex("C") /\ StepIndex("B") < StepIndex("C")
      /\ StepIndex("C") < StepIndex("D") /\ StepIndex("A") < StepIndex("D")
      /\ StepIndex("B") < StepIndex("E") /\ StepIndex("C") < StepIndex("E")
      /\ StepIndex("D") < StepIndex("E")
      /\ {result.plan[1][1], result.plan[2][1]} = {"A", "B"}
      /\ result.plan[1][2] = << >> /\ result.plan[2][2] = << >>
      /\ result.plan[3][1] = "C"
      /\ Range(result.plan[3][2]) = {<<"a", "A">>, <<"b", "B">>}
      /\ Len(result.plan[3][2]) = 2
      /\ result.plan[4][1] = "D"
      /\ Range(result.plan[4][2]) = {<<"a", "A">>, <<"c", "C">>}
      /\ Len(result.plan[4][2]) = 2
      /\ result.plan[5][1] = "E"
      /\ Range(result.plan[5][2]) = {<<"b", "B">>, <<"c", "C">>, <<"d", "D">>}
      /\ Len(result.plan[5][2]) = 3
      /\ result.full_final_kwargs

\* the call of the example has returned and its plan was run to the end
C14_Witness ==
    /\ EndToEndCall
    /\ ~recursive_overrides
    /\ ~full_final_kwargs
    /\ pc = "built"
    /\ instances = Nodes

\* C15 (full_final_kwargs of a returned plan): the attribute is True if
\* and only if the final step's kwargs_spec binds every parameter of the
\* root target or the root target is externally provided; it is True for a
\* root without parameters and for every plan returned under
\* full_final_kwargs=True, and False whenever a parameter of the root is
\* omitted.
C15_FullFinalKwargsAttribute ==
    PlanReturned =>
      /\ result.full_final_kwargs <=>
           \/ RootTarget \in externally_provided
           \/ Keys(LastKwargs) = ArgNames(inspect(RootTarget))
      /\ inspect(RootTarget) = << >> => result.full_final_kwargs
      /\ full_final_kwargs => result.full_final_kwargs
      /\ ( /\ RootTarget \notin externally_provided
           /\ ArgNames(inspect(RootTarget)) \ Keys(LastKwargs) # {} )
         => ~result.full_final_kwargs

\* a plan returned with full_final_kwargs False: the root has three
\* parameters, of which the final step binds some and omits some
C15_Witness ==
    /\ PlanReturned
    /\ ~result.full_final_kwargs
    /\ Len(inspect(RootTarget)) = 3
    /\ LastKwargs # << >>
    /\ Keys(LastKwargs) # ArgNames(inspect(RootTarget))

\* a plan returned for a root without parameters
C15_WitnessNoArgs ==
    /\ PlanReturned
    /\ RootTarget \notin externally_provided
    /\ inspect(RootTarget) = << >>
    /\ result.full_final_kwargs

\* the depth of the _plan call of a frame: the root call has depth 1
Depth(f) == Len(f.dependency_stack) + 1

\* C16 (termination): plan() terminates for every graph, with cycles and
\* with overrides that send nodes to each other: it returns a plan or
\* raises NonProvidableError and nothing else; no node is twice on a
\* dependency stack, no call is made beneath a re-encountered node, and the
\* recursion depth never exceeds the number of distinct nodes plus one.
C16_Termination ==
    pc # "start" =>
      /\ result.raised \in {None, "NonProvidableError"}
      /\ \A i \in DOMAIN result.frames :
           LET f == result.frames[i]
           IN  /\ f.outcome # "assert"
               /\ \A j, k \in DOMAIN f.dependency_stack :
                    f.dependency_stack[j] = f.dependency_stack[k] => j = k
               /\ f.outcome \in {"cyclic", "external"} => Beneath(i) = {}
               /\ Depth(f) <= Cardinality(Nodes) + 1

\* plan() has terminated on a cyclic graph with overrides that send two
\* nodes to each other, after a call at depth five that met a node again
C16_Witness ==
    /\ AfterPlan
    /\ overrides["A"] = "B" /\ overrides["B"] = "A"
    /\ recursive_overrides
    /\ \E i \in DOMAIN result.frames :
         /\ result.frames[i].outcome = "cyclic"
         /\ Depth(result.frames[i]) >= 5

\* the error cases that the call of frame i itself finds: the node was met
\* again, or (for a node that must be fully resolved) a parameter has no
\* annotation or only rejected candidates
CasesAt(i) ==
    LET f == result.frames[i]
        args == inspect(f.class_or_func)
    IN  IF f.outcome = "cyclic"
        THEN {CyclicDependencyErrCase(f.class_or_func, f.dependency_stack)}
        ELSE IF f.outcome = "inspected" /\ f.full_final_kwargs
        THEN {IF args[k][2] = << >>
              THEN LackingAnnotationErrCase(args[k][1], f.class_or_func)
              ELSE NonInjectableOrExternalErrCase(args[k][1], f.class_or_func,
                                                  args[k][2]) :
                k \in {n \in DOMAIN args : NoCandidate(args[n][2], f.overrides)}}
        ELSE {}

\* the frame of the call, made by the root call, beneath which frame i lies
TopFrame(i) ==
    CHOOSE j \in 1 .. i :
      /\ Len(result.frames[j].dependency_stack) = 1
      /\ \A k \in (j + 1) .. i : Len(result.frames[k].dependency_stack) > 1

\* the root parameters for which the node of frame j was selected
ParamsSelecting(j) ==
    {inspect(RootTarget)[k][1] : k \in
       {n \in DOMAIN inspect(RootTarget) :
          _select_type(inspect(RootTarget)[n][2], is_injectable,
                       externally_provided, RootOverrides,
                       recursive_overrides)
            = << result.frames[j].class_or_func, result.frames[j].overrides >>}}

\* C17 (one exception type, errors per root parameter): a failure found by
\* any call (a cycle, a parameter without annotation, a parameter whose
\* candidates are all rejected) makes plan() raise NonProvidableError, and
\* nothing else is ever raised; the exception is for the root target, the
\* keys of errors_per_argument are parameters of the root, every case found
\* beneath a root parameter is in the list of that parameter, and every
\* listed case was found by some call.
C17_ErrorsPerRootArgument ==
    AfterPlan =>
      /\ result.raised \in {None, "NonProvidableError"}
      /\ (\E i \in DOMAIN result.frames : CasesAt(i) # {})
           <=> result.raised = "NonProvidableError"
      /\ result.raised = "NonProvidableError" =>
           /\ result.class_or_func = RootTarget
           /\ Keys(result.errors_per_argument)
                \subseteq ArgNames(inspect(RootTarget))
           /\ \A k \in DOMAIN result.errors_per_argument :
                result.errors_per_argument[k][2] # << >>
           /\ \A e \in CasesAt(1) :
                e \in Range(Get(result.errors_per_argument, e.argname, << >>))
           /\ \A i \in DOMAIN result.frames :
                Len(result.frames[i].dependency_stack) >= 1 =>
                  \A e \in CasesAt(i) :
                    \E a \in ParamsSelecting(TopFrame(i)) :
                      e \in Range(Get(result.errors_per_argument, a, << >>))
           /\ \A k \in DOMAIN AllErrors :
                \E i \in DOMAIN result.frames : AllErrors[k] \in CasesAt(i)

\* plan() raised with two root parameters in error, one of them with
\* several cases, of which one was found three calls beneath the root
C17_Witness ==
    /\ PlanRaised
    /\ Len(result.errors_per_argument) >= 2
    /\ \E k \in DOMAIN result.errors_per_argument :
         Len(result.errors_per_argument[k][2]) >= 2
    /\ \E i \in DOMAIN result.frames :
         /\ Depth(result.frames[i]) >= 4
         /\ CasesAt(i) # {}

\* the build loop has run the steps of plan.dependencies and no other
DependenciesBuilt ==
    /\ pc = "planned"
    /\ step = Len(dependencies(result.plan)) + 1
    /\ instances = StepNodes(dependencies(result.plan))

\* C18 (plan.dependencies and final_kwargs): for every returned plan,
\* plan.dependencies is the plan without its last step, every node bound by
\* the final step's kwargs_spec is the node of a step of plan.dependencies,
\* and once plan.dependencies is built plan.final_kwargs(instances) is
\* defined and has every bound parameter of the root, also when
\* full_final_kwargs is False.
C18_DependenciesAndFinalKwargs ==
    (pc \in {"planned", "built", "KeyError"}) =>
      /\ Len(dependencies(result.plan)) = Len(result.plan) - 1
      /\ dependencies(result.plan) \o << result.plan[Len(result.plan)] >>
           = result.plan
      /\ Values(LastKwargs) \subseteq StepNodes(dependencies(result.plan))
      /\ DependenciesBuilt =>
           /\ final_kwargs(result.plan, instances).raised = None
           /\ Keys(final_kwargs(result.plan, instances).kwargs)
                = Keys(LastKwargs)

\* the dependencies of a plan with full_final_kwargs False were built, and
\* the final step binds some of the root's parameters
C18_Witness ==
    /\ DependenciesBuilt
    /\ ~result.full_final_kwargs
    /\ Len(result.plan) >= 3
    /\ LastKwargs # << >>

\* the case to be recorded for parameter k of node cls when no candidate is
\* chosen for it
UnresolvedCase(cls, k) ==
    LET argname == inspect(cls)[k][1]
        types == inspect(cls)[k][2]
    IN  IF types = << >>
        THEN [case |-> "LackingAnnotationErrCase", argname |-> argname,
              class_or_func |-> cls]
        ELSE [case |-> "NonInjectableOrExternalErrCase", argname |-> argname,
              class_or_func |-> cls, types |-> types]

\* the calls that inspected node cls, had to resolve it fully, and chose no
\* candidate for its parameter k
CallsWithUnresolved(cls, k) ==
    {i \in DOMAIN result.frames :
       /\ result.frames[i].outcome = "inspected"
       /\ result.frames[i].class_or_func = cls
       /\ result.frames[i].full_final_kwargs
       /\ NoCandidate(inspect(cls)[k][2], result.frames[i].overrides)}

Occurrences(seq, e) == Cardinality({i \in DOMAIN seq : seq[i] = e})

\* C19 (error taxonomy per unresolved parameter): a parameter for which no
\* candidate is chosen yields a LackingAnnotationErrCase(argname, node) when
\* its candidate list is empty and otherwise a
\* NonInjectableOrExternalErrCase(argname, node, types) with the whole
\* declared candidate list in declared order; each call records exactly one
\* such case per unresolved parameter, and an unresolved parameter of the
\* root has this one case as its whole error list.
C19_ErrorTaxonomy ==
    PlanRaised =>
      /\ \A cls \in Nodes : \A k \in DOMAIN inspect(cls) :
           Occurrences(AllErrors, UnresolvedCase(cls, k))
             = Cardinality(CallsWithUnresolved(cls, k))
      /\ \A n \in DOMAIN AllErrors :
           AllErrors[n].case # "CyclicDependencyErrCase" =>
             \E cls \in Nodes : \E k \in DOMAIN inspect(cls) :
               AllErrors[n] = UnresolvedCase(cls, k)
      /\ \A k \in DOMAIN inspect(RootTarget) :
           1 \in CallsWithUnresolved(RootTarget, k) =>
             Get(result.errors_per_argument, inspect(RootTarget)[k][1], << >>)
               = << UnresolvedCase(RootTarget, k) >>

\* plan() raised with a LackingAnnotationErrCase and with a
\* NonInjectableOrExternalErrCase that lists two candidates, one of them
\* recorded beneath the root
C19_Witness ==
    /\ PlanRaised
    /\ \E n \in DOMAIN AllErrors : AllErrors[n].case = "LackingAnnotationErrCase"
    /\ \E n \in DOMAIN AllErrors :
         /\ AllErrors[n].case = "NonInjectableOrExternalErrCase"
         /\ Len(AllErrors[n].types) = 2
         /\ AllErrors[n].class_or_func # RootTarget

\* C20 (only the root may be partial): in every returned plan every step
\* other than the final one is the step of an externally provided node,
\* with an empty kwargs_spec, or binds every parameter of its node; only
\* the final step may bind a strict subset of the parameters.
C20_OnlyRootPartial ==
    PlanReturned =>
      \A i \in 1 .. (Len(result.plan) - 1) :
        LET node == result.plan[i][1]
            kwargs_spec == result.plan[i][2]
        IN  IF node \in externally_provided
            THEN kwargs_spec = << >>
            ELSE /\ Len(kwargs_spec) = Len(inspect(node))
                 /\ \A k \in DOMAIN inspect(node) :
                      /\ kwargs_spec[k][1] = inspect(node)[k][1]
                      /\ kwargs_spec[k][2] \in Range(inspect(node)[k][2])
                           \cup {overrides[c] : c \in Range(inspect(node)[k][2])}

\* a returned plan whose final step binds a strict subset of the root's
\* parameters and that has an earlier step of a node with parameters, all
\* of them bound
C20_Witness ==
    /\ PlanReturned
    /\ RootTarget \notin externally_provided
    /\ LastKwargs # << >>
    /\ Len(LastKwargs) < Len(inspect(RootTarget))
    /\ \E i \in 1 .. (Len(result.plan) - 1) :
         /\ result.plan[i][1] \notin externally_provided
         /\ result.plan[i][2] # << >>

\* the candidate c is replaced by the overrides ov, and the policies answer
\* differently for c and for its replacement
PolicyDiffers(c, ov) ==
    /\ ov[c] # None
    /\ ov[c] # c
    /\ Acceptable(c) # Acceptable(ov[c])

\* C21 (the policies are tested on the replacement): for every parameter
\* of every inspected node the selector chooses nothing exactly when no
\* replacement of a candidate is acceptable, and what it chooses is an
\* acceptable replacement; so a parameter whose only candidate is
\* injectable but is replaced by a node that is neither injectable nor
\* externally provided is unresolved (the root omits it, and raises under
\* full_final_kwargs=True), and a parameter whose only candidate is not
\* acceptable but is replaced by an acceptable node is resolved to the
\* replacement.
C21_PoliciesOnReplacement ==
    AfterPlan =>
      /\ \A i \in DOMAIN result.frames :
           LET f == result.frames[i]
               args == inspect(f.class_or_func)
           IN  f.outcome = "inspected" =>
                 \A k \in DOMAIN args :
                   LET sel == _select_type(args[k][2], is_injectable,
                                           externally_provided, f.overrides,
                                           recursive_overrides)[1]
                       repl == {Replaced(c, f.overrides) : c \in Range(args[k][2])}
                   IN  /\ sel = None <=> \A r \in repl : ~Acceptable(r)
                       /\ sel # None => sel \in repl /\ Acceptable(sel)
      /\ RootTarget \notin externally_provided =>
           \A k \in DOMAIN inspect(RootTarget) :
             LET argname == inspect(RootTarget)[k][1]
                 types == inspect(RootTarget)[k][2]
             IN  (Len(types) = 1 /\ PolicyDiffers(types[1], RootOverrides)) =>
                   IF Acceptable(types[1])
                   THEN /\ result.raised = None =>
                             argname \notin Keys(LastKwargs)
                        /\ full_final_kwargs =>
                             /\ result.raised = "NonProvidableError"
                             /\ Get(result.errors_per_argument, argname, << >>)
                                  = << [case |-> "NonInjectableOrExternalErrCase",
                                        argname |-> argname,
                                        class_or_func |-> RootTarget,
                                        types |-> types] >>
                   ELSE result.raised = None =>
                          Get(LastKwargs, argname, None)
                            = RootOverrides[types[1]]

\* plan(..., full_final_kwargs=True) raised for a root with a parameter
\* whose only candidate is injectable and is replaced by a node that is
\* neither injectable nor externally provided
C21_Witness ==
    /\ PlanRaised
    /\ full_final_kwargs
    /\ \E k \in DOMAIN inspect(RootTarget) :
         LET types == inspect(RootTarget)[k][2]
         IN  /\ Len(types) = 1
             /\ PolicyDiffers(types[1], RootOverrides)
             /\ types[1] \in is_injectable

\* a plan was returned that binds the acceptable replacement of a candidate
\* that is itself neither injectable nor externally provided
C21_WitnessChosen ==
    /\ PlanReturned
    /\ RootTarget \notin externally_provided
    /\ \E k \in DOMAIN inspect(RootTarget) :
         LET types == inspect(RootTarget)[k][2]
         IN  /\ Len(types) = 1
             /\ PolicyDiffers(types[1], RootOverrides)
             /\ ~Acceptable(types[1])
             /\ Get(LastKwargs, inspect(RootTarget)[k][1], None)
                  = RootOverrides[types[1]]

\* overrides={A: B, B: A}.get
SwapAB == OverridesGet({<<"A", "B">>, <<"B", "A">>})

\* C22 (the overrides are applied once): the node a candidate is replaced
\* by is overrides(candidate), which is not overridden again. With
\* overrides={A: B, B: A}.get a parameter of the root requesting A is bound
\* to B and one requesting B is bound to A, for both values of
\* recursive_overrides; and for the classes of the tests, all injectable
\* and A externally provided, plan(C) returns
\* [(B,{}), (A,{}), (C,{a: B, b: A})] and no call meets a node again.
C22_OverrideAppliedOnce ==
    AfterPlan =>
      /\ \A c \in Nodes :
           _may_override(c, overrides, recursive_overrides)[1]
             = IF overrides[c] = None THEN c ELSE overrides[c]
      /\ (overrides = SwapAB /\ result.raised = None
            /\ RootTarget \notin externally_provided) =>
           \A k \in DOMAIN inspect(RootTarget) :
             LET argname == inspect(RootTarget)[k][1]
                 types == inspect(RootTarget)[k][2]
             IN  /\ (types = <<"A">> /\ Acceptable("B")) =>
                       Get(LastKwargs, argname, None) = "B"
                 /\ (types = <<"B">> /\ Acceptable("A")) =>
                       Get(LastKwargs, argname, None) = "A"
      /\ ( /\ arguments = TestGraph
           /\ class_or_func = "C"
           /\ is_injectable = Nodes
           /\ externally_provided = {"A"}
           /\ overrides = SwapAB ) =>
             /\ result.raised = None
             /\ result.plan =
                  << <<"B", << >> >>, <<"A", << >> >>,
                     <<"C", << <<"a", "B">>, <<"b", "A">> >> >> >>
             /\ \A i \in DOMAIN result.frames :
                  result.frames[i].outcome # "cyclic"

\* the call of the example has returned under recursive_overrides=True
C22_Witness ==
    /\ PlanReturned
    /\ arguments = TestGraph
    /\ class_or_func = "C"
    /\ is_injectable = Nodes
    /\ externally_provided = {"A"}
    /\ overrides = SwapAB
    /\ recursive_overrides
    /\ Get(LastKwargs, "a", None) = "B"
    /\ Get(LastKwargs, "b", None) = "A"

\* C23 (the root need not be injectable): for a root target that is neither
\* injectable nor externally provided plan() inspects the root and never
\* fails because of the root itself: it raises only NonProvidableError, and
\* only when a call found an error case; a returned plan ends with the
\* root's step; when no parameter of the root resolves and
\* full_final_kwargs is False the plan is [(root, {})], with
\* full_final_kwargs False if the root has parameters.
C23_RootExemptFromInjectable ==
    (AfterPlan /\ ~Acceptable(RootTarget)) =>
      /\ result.frames[1].class_or_func = RootTarget
      /\ result.frames[1].outcome = "inspected"
      /\ result.raised # "AssertionError"
      /\ result.raised # None => \E i \in DOMAIN result.frames : CasesAt(i) # {}
      /\ result.raised = None =>
           result.plan[Len(result.plan)][1] = RootTarget
      /\ ( /\ ~full_final_kwargs
           /\ Unresolved(RootTarget, RootOverrides)
                = ArgNames(inspect(RootTarget)) ) =>
             /\ result.raised = None
             /\ result.plan = << <<RootTarget, << >> >> >>
             /\ result.full_final_kwargs <=> inspect(RootTarget) = << >>

\* a plan of several steps was returned for a root that is neither
\* injectable nor externally provided
C23_Witness ==
    /\ PlanReturned
    /\ ~Acceptable(RootTarget)
    /\ Len(result.plan) >= 2

\* the plan [(root, {})] with full_final_kwargs False was returned for a
\* root that is neither injectable nor externally provided, none of whose
\* parameters resolves
C23_WitnessNothingResolves ==
    /\ PlanReturned
    /\ ~Acceptable(RootTarget)
    /\ inspect(RootTarget) # << >>
    /\ result.plan = << <<RootTarget, << >> >> >>
    /\ ~result.full_final_kwargs

\* The depth-first traversal of the graph of selected candidates, with no
\* overrides: done is the sequence of nodes completed so far, path the
\* nodes being visited. A node already completed is skipped, an externally
\* provided node is completed without descending, any other node is
\* completed after the selected candidates of its parameters, taken in
\* declared order.
RECURSIVE PostOrder(_, _, _)
RECURSIVE PostOrderArgs(_, _, _, _)
PostOrder(n, done, path) ==
    IF n \in Range(done) \/ n \in Range(path) THEN done
    ELSE IF n \in externally_provided THEN Append(done, n)
    ELSE Append(PostOrderArgs(n, 1, done, Append(path, n)), n)

PostOrderArgs(n, k, done, path) ==
    IF k > Len(inspect(n)) THEN done
    ELSE LET sel == FirstAcceptable(inspect(n)[k][2], _empty_overrides)
         IN  PostOrderArgs(n, k + 1,
                           IF sel = None THEN done
                           ELSE PostOrder(sel, done, path),
                           path)

\* the parameters of n that have a selected candidate, with it, in declared
\* order
RECURSIVE DeclaredKwargs(_, _)
DeclaredKwargs(n, k) ==
    IF k > Len(inspect(n)) THEN << >>
    ELSE LET sel == FirstAcceptable(inspect(n)[k][2], _empty_overrides)
         IN  (IF sel = None THEN << >> ELSE << <<inspect(n)[k][1], sel>> >>)
               \o DeclaredKwargs(n, k + 1)

\* C24 (depth-first post-order): with no overrides the step nodes of a
\* returned plan are, in order, the post-order of the depth-first
\* traversal from the root that takes the parameters in declared order,
\* follows the selected candidate of each, does not descend into externally
\* provided nodes and lists each node at its first completion; the
\* kwargs_spec of each step has the parameters in declared order.
C24_DepthFirstPostOrder ==
    (PlanReturned /\ overrides = _empty_overrides) =>
      /\ [i \in DOMAIN result.plan |-> result.plan[i][1]]
           = PostOrder(class_or_func, << >>, << >>)
      /\ \A i \in DOMAIN result.plan :
           result.plan[i][2] =
             IF result.plan[i][1] \in externally_provided THEN << >>
             ELSE DeclaredKwargs(result.plan[i][1], 1)

\* a plan of five steps returned with no overrides, in which a node is
\* required along several paths and a step has several parameters
C24_Witness ==
    /\ PlanReturned
    /\ overrides = _empty_overrides
    /\ Len(result.plan) = 5
    /\ \E i, j \in DOMAIN result.plan :
         /\ i # j
         /\ Values(result.plan[i][2]) \cap Values(result.plan[j][2]) # {}
    /\ Len(LastKwargs) >= 2

\* C25 (stacks are not shared between branches): the root call has the
\* empty stack, and every other call is made with exactly the stack of the
\* call that made it followed by that call's node, whatever was expanded
\* for the earlier parameters; the stack in every CyclicDependencyErrCase
\* of the raised error is still the stack of the call that created it.
C25_StacksNotShared ==
    AfterPlan =>
      /\ result.frames[1].dependency_stack = << >>
      /\ result.frames[1].caller = << >>
      /\ \A i \in DOMAIN result.frames :
           i > 1 =>
             /\ result.frames[i].caller # << >>
             /\ result.frames[i].dependency_stack
                  = Append(result.frames[i].caller[2],
                           result.frames[i].caller[1])
      /\ \A k \in DOMAIN AllErrors :
           AllErrors[k].case = "CyclicDependencyErrCase" =>
             \E i \in DOMAIN result.frames :
               /\ result.frames[i].outcome = "cyclic"
               /\ AllErrors[k].class_or_func = result.frames[i].class_or_func
               /\ AllErrors[k].dependency_stack
                    = result.frames[i].dependency_stack

\* the calls made from the argument loop of the call of frame i
CalledFrom(i) ==
    { j \in Beneath(i) :
        result.frames[j].caller
          = << result.frames[i].class_or_func,
               result.frames[i].dependency_stack >> }

\* plan() raised: a call made two calls, the first of which made calls of
\* its own and created a CyclicDependencyErrCase before the second was made
C25_Witness ==
    /\ PlanRaised
    /\ \E i, j \in DOMAIN result.frames :
         /\ i < j
         /\ \E p \in DOMAIN result.frames :
              i \in CalledFrom(p) /\ j \in CalledFrom(p)
         /\ \E c \in Beneath(i) : result.frames[c].outcome = "cyclic"
         /\ result.frames[j].outcome = "inspected"

\* the merges "plan_od.update(plan)" made during the plan() call
Merges ==
    { result.frames[i].merge : i \in { j \in DOMAIN result.frames :
                                         result.frames[j].merge # << >> } }

\* C26 (merging keeps what is there): every merge of a sub-plan into a
\* node's accumulating plan leaves every step already present at its
\* position with its kwargs_spec, and what it appends are steps of the
\* sub-plan for nodes that were not present.
C26_MergeKeepsSteps ==
    AfterPlan =>
      \A m \in Merges :
        LET before == m[1]
            sub_plan == m[2]
            after == m[3]
        IN  /\ Len(after) >= Len(before)
            /\ \A k \in DOMAIN before : after[k] = before[k]
            /\ \A k \in (Len(before) + 1) .. Len(after) :
                 /\ ~HasKey(before, after[k][1])
                 /\ \E l \in DOMAIN sub_plan : sub_plan[l] = after[k]

\* C27 (the assertion holds): no _plan call fails the assertion; every
\* call with a non-empty stack is on an externally provided node, which
\* returns before the assertion, or on an injectable node.
C27_AssertionNeverFails ==
    AfterPlan =>
      /\ result.raised # "AssertionError"
      /\ \A i \in DOMAIN result.frames :
           LET f == result.frames[i]
           IN  f.dependency_stack # << >> =>
                 IF f.class_or_func \in externally_provided
                 THEN f.outcome = "external"
                 ELSE /\ f.class_or_func \in is_injectable
                      /\ f.outcome \in {"inspected", "cyclic"}

\* a call on a root that is not injectable made calls on an injectable and
\* on an externally provided node, and some call inspected a node with a
\* parameter whose first candidate is acceptable to neither policy
C27_Witness ==
    /\ AfterPlan
    /\ RootTarget \notin is_injectable
    /\ \E i, j \in DOMAIN result.frames :
         /\ result.frames[i].dependency_stack # << >>
         /\ result.frames[i].outcome = "inspected"
         /\ result.frames[j].dependency_stack # << >>
         /\ result.frames[j].outcome = "external"
    /\ \E i \in DOMAIN result.frames :
         /\ result.frames[i].outcome = "inspected"
         /\ \E k \in DOMAIN inspect(result.frames[i].class_or_func) :
              LET types == inspect(result.frames[i].class_or_func)[k][2]
              IN  /\ Len(types) >= 2
                  /\ ~Acceptable(Replaced(types[1],
                                          result.frames[i].overrides))
                  /\ Acceptable(Replaced(types[2],
                                         result.frames[i].overrides))

\* the call that expanded element k of the stack s: the frame on s[k] made
\* with the elements before it as its stack
Expanding(s, k) ==
    { i \in DOMAIN result.frames :
        /\ result.frames[i].outcome = "inspected"
        /\ result.frames[i].class_or_func = s[k]
        /\ result.frames[i].dependency_stack = SubSeq(s, 1, k - 1) }

\* C28 (the dependency stack is a path): in every call the stack, when not
\* empty, starts with the root target, has no node twice and no externally
\* provided node, and each element after the first is the candidate
\* selected for some parameter of the element before it.
C28_StackIsSelectedPath ==
    AfterPlan =>
      \A i \in DOMAIN result.frames :
        LET s == result.frames[i].dependency_stack
        IN  s # << >> =>
              /\ s[1] = RootTarget
              /\ \A j, k \in DOMAIN s : s[j] = s[k] => j = k
              /\ \A k \in DOMAIN s : s[k] \notin externally_provided
              /\ \A k \in 1 .. (Len(s) - 1) :
                   \E g \in Expanding(s, k) :
                     \E p \in DOMAIN inspect(s[k]) :
                       FirstAcceptable(inspect(s[k])[p][2],
                                       result.frames[g].overrides) = s[k + 1]

\* a call with three nodes on its stack, beneath an overridden root, one
\* of them there as the replacement of the candidate the one before declares
C28_Witness ==
    /\ AfterPlan
    /\ RootTarget # class_or_func
    /\ externally_provided # {}
    /\ \E i \in DOMAIN result.frames :
         LET s == result.frames[i].dependency_stack
         IN  /\ Len(s) >= 3
             /\ \E k \in 1 .. (Len(s) - 1) :
                  \A p \in DOMAIN inspect(s[k]) :
                    \A c \in DOMAIN inspect(s[k])[p][2] :
                      inspect(s[k])[p][2][c] # s[k + 1]

\* the call of frame i could not resolve its node: the node was met again,
\* or a parameter of it has no acceptable candidate
FailsAt(i) ==
    \/ result.frames[i].outcome = "cyclic"
    \/ /\ result.frames[i].outcome = "inspected"
       /\ Unresolved(result.frames[i].class_or_func,
                     result.frames[i].overrides) # {}

\* C29 (selection never backtracks): every call made for a parameter is on
\* the first acceptable candidate of some parameter of the caller, so no
\* later candidate is ever tried; and when a call beneath the root cannot
\* resolve its node, plan() raises NonProvidableError, whatever later
\* candidates the parameters above it have.
C29_NoBacktracking ==
    AfterPlan =>
      /\ \A i \in DOMAIN result.frames :
           \A j \in CalledFrom(i) :
             \E p \in DOMAIN inspect(result.frames[i].class_or_func) :
               FirstAcceptable(inspect(result.frames[i].class_or_func)[p][2],
                               result.frames[i].overrides)
                 = result.frames[j].class_or_func
      /\ (\E i \in DOMAIN result.frames : i > 1 /\ FailsAt(i)) =>
           /\ PlanRaised
           /\ result.raised = "NonProvidableError"

\* plan() raised although a parameter, whose first acceptable candidate
\* could not be resolved, has a later candidate that is acceptable and has
\* nothing to resolve (externally provided, or without parameters)
C29_Witness ==
    /\ PlanRaised
    /\ \E i \in DOMAIN result.frames :
         /\ result.frames[i].outcome = "inspected"
         /\ \E p \in DOMAIN inspect(result.frames[i].class_or_func) :
              LET types == inspect(result.frames[i].class_or_func)[p][2]
                  ov == result.frames[i].overrides
              IN  \E m, n \in DOMAIN types :
                    /\ m < n
                    /\ FirstAcceptable(types, ov) = Replaced(types[m], ov)
                    /\ Replaced(types[n], ov) # Replaced(types[m], ov)
                    /\ \E j \in CalledFrom(i) :
                         /\ result.frames[j].class_or_func
                              = Replaced(types[m], ov)
                         /\ \E c \in Beneath(j) \cup {j} : FailsAt(c)
                    /\ Acceptable(Replaced(types[n], ov))
                    /\ \/ Replaced(types[n], ov) \in externally_provided
                       \/ inspect(Replaced(types[n], ov)) = << >>

\* C30 (no unused steps): when no overrides are given, every step of a
\* returned plan other than the final one has its node bound in the
\* kwargs_spec of some later step, so every step node is reached from the
\* final step; and no call beneath the root of a returned plan failed, so
\* no step comes from a failed subtree.
C30_NoUnusedSteps ==
    (PlanReturned /\ overrides = _empty_overrides) =>
      /\ \A i \in 1 .. (Len(result.plan) - 1) :
           \E j \in (i + 1) .. Len(result.plan) :
             result.plan[i][1] \in Values(result.plan[j][2])
      /\ StepNodes(result.plan)
           = BoundClosure({result.plan[Len(result.plan)][1]})
      /\ \A i \in DOMAIN result.frames : i > 1 => ~FailsAt(i)
      /\ \A i \in DOMAIN result.plan :
           \E f \in DOMAIN result.frames :
             /\ result.frames[f].class_or_func = result.plan[i][1]
             /\ result.frames[f].outcome \in {"inspected", "external"}

\* a plan of at least four steps was returned with no overrides for a root
\* one parameter of which has no candidate, one step being bound by two
\* later steps
C30_Witness ==
    /\ PlanReturned
    /\ overrides = _empty_overrides
    /\ Len(result.plan) >= 4
    /\ Unresolved(class_or_func, overrides) # {}
    /\ \E i, j, k \in DOMAIN result.plan :
         /\ i < j /\ j < k
         /\ result.plan[i][1] \in Values(result.plan[j][2])
         /\ result.plan[i][1] \in Values(result.plan[k][2])

====
